---- MODULE Spec2Model ----
(***************************************************************************)
(* Verification model of penguin-optimization (ppp):                       *)
(*   - the tower editor of ppp/gui/main_gui.py (MainCanvas, InfoFrame,     *)
(*     Application), specification Spec;                                   *)
(*   - the MINLP model builder of ppp/minlp.py (solve_minlp),              *)
(*     specification SpecMinlp.                                            *)
(* ppp/point.py, ppp/instance.py and ppp/solution.py are not part of the   *)
(* sources at hand; Point, points_within_radius, Solution.valid and        *)
(* Solution.penalty follow the written specification.                      *)
(***************************************************************************)
EXTENDS Integers, Naturals, Sequences, FiniteSets, TLC

VARIABLES
  instance,           \* Instance shared by the editor and the builder
  towers,             \* MainCanvas.towers: dict id -> Point
  selected_tower_id,  \* MainCanvas.selected_tower_id (None or an id)
  tower_tags,         \* ids i for which canvas items tagged tower_i exist
  solution,           \* Application.solution.towers, as a multiset of Points
  lbl_valid,          \* InfoFrame.lbl_valid (TRUE = "Valid")
  lbl_cost,           \* InfoFrame.lbl_cost, see Penalty
  btn_delete,         \* state of InfoFrame.btn_delete
  btn_add,            \* state of InfoFrame.btn_add
  button_1,           \* handler bound to <Button-1> on the canvas
  last,               \* the event handled last, whether it was accepted, and
                      \* whether it asked for a point outside the grid (history)
  added,              \* the last accepted add while the map is as it left it:
                      \* the id it assigned and the map before it (history)
  pc,                 \* solve_minlp: position in the function
  cover_cities,       \* solve_minlp: model.cover_cities
  w,                  \* solve_minlp: objective_rule's w[x][y]
  dummy_constraint,   \* solve_minlp: model.dummy_constraint
  results,            \* solve_minlp: termination reported by the solver
  t,                  \* solve_minlp: model.t[x, y].value
  ret,                \* solve_minlp: the returned value
  expansion           \* a call of exp_expansion_1 and exp_expansion_2: the
                      \* argument w and what each has returned so far

vars == <<instance, towers, selected_tower_id, tower_tags, solution, lbl_valid,
          lbl_cost, btn_delete, btn_add, button_1, last, added, pc, cover_cities, w,
          dummy_constraint, results, t, ret, expansion>>

editorVars == <<towers, selected_tower_id, tower_tags, solution, lbl_valid,
                lbl_cost, btn_delete, btn_add, button_1, last, added>>

minlpVars == <<pc, cover_cities, w, dummy_constraint, results, t, ret>>

----------------------------------------------------------------------------
(* Bounds *)

\* grid_side_length of the instances opened in the editor
GridDim == 2

\* the editor is explored up to this many towers, loaded or added
MaxTowers == 2

\* grid_side_length of the instances handed to solve_minlp
MinlpDim == 2

\* number of cities of the instances handed to solve_minlp
MaxCities == 2

\* largest coverage / penalty radius
MaxRadius == 1

\* the solver's answers are explored up to this many selected cells
MaxSelected == 2

\* largest overlap count w handed to exp_expansion_1 and exp_expansion_2
MaxW == 30

----------------------------------------------------------------------------
(* Values *)

\* Python's None, for an optional identifier or an unset variable value
None == -1

\* Application.dim: side of the canvas in pixels
CanvasDim == 720

NORMAL == "normal"

DISABLED == "disabled"

\* ppp.point.Point: a value type, equal by coordinate pair
Point(x, y) == [x |-> x, y |-> y]

Cells(dim) == {Point(x, y) : x \in 0..(dim - 1), y \in 0..(dim - 1)}

\* squared euclidean distance of two points, in integers
DistanceSq(p, q) == (p.x - q.x) * (p.x - q.x) + (p.y - q.y) * (p.y - q.y)

\* Point.points_within_radius(center, radius, dim): the closed disk clipped
\* to the grid, center included
PointsWithinRadius(center, radius, dim) ==
  {p \in Cells(dim) : DistanceSq(center, p) <= radius * radius}

\* a collection of Points as a multiset: point -> number of occurrences
BagOfValues(tws) ==
  [p \in {tws[i] : i \in DOMAIN tws} |-> Cardinality({i \in DOMAIN tws : tws[i] = p})]

\* Solution.valid(): every city has a tower within coverage_radius
Valid(inst, tws) ==
  \A c \in DOMAIN inst.cities :
    \E i \in DOMAIN tws :
      DistanceSq(inst.cities[c], tws[i]) <= inst.coverage_radius * inst.coverage_radius

\* overlap count of tower i: the other towers within penalty_radius
Overlap(inst, tws, i) ==
  Cardinality({j \in DOMAIN tws : j # i /\
      DistanceSq(tws[i], tws[j]) <= inst.penalty_radius * inst.penalty_radius})

\* Solution.penalty() = sum over towers of 170 * exp(0.17 * overlap). The sum
\* is kept exactly, as its coefficients in the terms 170 * exp(0.17 * k):
\* k -> number of towers whose overlap count is k.
Penalty(inst, tws) ==
  [k \in {Overlap(inst, tws, i) : i \in DOMAIN tws} |->
     Cardinality({i \in DOMAIN tws : Overlap(inst, tws, i) = k})]

\* round(n / d) of Python 3 for n >= 0, d > 0: nearest integer, ties to even
Round(n, d) ==
  LET q == n \div d
      r == n % d
  IN  IF 2 * r < d THEN q
      ELSE IF 2 * r > d THEN q + 1
      ELSE IF q % 2 = 0 THEN q ELSE q + 1

\* MainCanvas.step = canvas_dim // grid_dim
Step(inst) == CanvasDim \div inst.grid_side_length

----------------------------------------------------------------------------
(* The editor *)

\* the bounds test with the upper bound off by one (> for >=)
InBoundsOffByOne(x, y, grid_dim) ==
  ~((x < 0 \/ x > grid_dim) \/ (y < 0 \/ y > grid_dim))

\* the grid bounds test of add_tower and move_tower (its negation returns)
InBounds(x, y, grid_dim) ==
  ~((x < 0 \/ x >= grid_dim) \/ (y < 0 \/ y >= grid_dim))

\* (x, y) in self.towers.values()
Occupied(tws, x, y) == \E i \in DOMAIN tws : tws[i] = Point(x, y)

\* id, tower = len(self.towers), Point(x, y)
NewId(tws) == Cardinality(DOMAIN tws)

\* self.towers[id] = tower
SetItem(tws, id, tower) ==
  [i \in DOMAIN tws \cup {id} |-> IF i = id THEN tower ELSE tws[i]]

\* del self.towers[id]
DelItem(tws, id) == [i \in DOMAIN tws \ {id} |-> tws[i]]

\* Application.update_solution followed by update_info_frame
UpdateSolution(tws) ==
  /\ solution' = BagOfValues(tws)
  /\ lbl_valid' = Valid(instance, tws)
  /\ lbl_cost' = Penalty(instance, tws)

\* pixel coordinates of the mouse events tried: the grid lines, a point
\* halfway between the first two (a tie of round) and the last pixel
ClickCoords(inst) ==
  {k * Step(inst) : k \in 0..(inst.grid_side_length - 1)}
    \cup {Step(inst) \div 2, CanvasDim - 1}

\* the instance opened in the editor: one city in the last cell, both radii 1
EditorInstances ==
  {[grid_side_length |-> GridDim, cities |-> <<Point(GridDim - 1, GridDim - 1)>>,
    coverage_radius |-> 1, penalty_radius |-> 1]}

\* the tower lists of the loaded solution: distinct cells of the grid
InitTowerLists ==
  {s \in UNION {[1..n -> Cells(GridDim)] : n \in 0..MaxTowers} :
      \A i, j \in DOMAIN s : i # j => s[i] # s[j]}

\* whether (x, y) is not a cell of the instance's grid (for the history)
OutsideGrid(x, y) ==
  \/ x \notin 0..(instance.grid_side_length - 1)
  \/ y \notin 0..(instance.grid_side_length - 1)

\* no accepted add to remember
NoAdd == [id |-> None, pre |-> <<>>]

\* the editor is not open while solve_minlp or the expansions run
EditorIdle ==
  /\ towers = <<>>
  /\ selected_tower_id = None
  /\ tower_tags = {}
  /\ solution = <<>>
  /\ lbl_valid = FALSE
  /\ lbl_cost = <<>>
  /\ btn_delete = DISABLED
  /\ btn_add = DISABLED
  /\ button_1 = "none"
  /\ last = [ev |-> "init", ok |-> TRUE, out |-> FALSE]
  /\ added = NoAdd

\* no call of the expansions is under way
ExpansionIdle ==
  expansion = [w |-> 0, order_1 |-> <<>>, order_2 |-> <<>>]

\* solve_minlp is not running while the editor is
MinlpIdle ==
  /\ pc = "idle"
  /\ cover_cities = <<>>
  /\ w = <<>>
  /\ dummy_constraint = <<>>
  /\ results = None
  /\ t = <<>>
  /\ ret = None

\* Application.__init__ and MainCanvas.__init__
Init ==
  /\ instance \in EditorInstances
  /\ \E s \in InitTowerLists :
       /\ towers = [i \in 0..(Len(s) - 1) |-> s[i + 1]]
       /\ solution = BagOfValues(s)
       /\ lbl_valid = Valid(instance, s)
       /\ lbl_cost = Penalty(instance, s)
       /\ tower_tags = 0..(Len(s) - 1)
  /\ selected_tower_id = None
  /\ btn_delete = DISABLED
  /\ btn_add = NORMAL
  /\ button_1 = "handle_btn_1"
  /\ last = [ev |-> "init", ok |-> TRUE, out |-> FALSE]
  /\ added = NoAdd
  /\ MinlpIdle
  /\ ExpansionIdle

\* MainCanvas.handle_btn_1: a left click on the tower item of id, or (id =
\* None) on anything else. self.towers[id] is looked up after the id is
\* stored: a missing id (KeyError) leaves the Delete button as it was.
HandleBtn1(id) ==
  /\ button_1 = "handle_btn_1"
  /\ IF id # None
       THEN /\ selected_tower_id' = id
            /\ btn_delete' = IF id \in DOMAIN towers THEN NORMAL ELSE btn_delete
       ELSE UNCHANGED <<selected_tower_id, btn_delete>>
  /\ last' = [ev |-> "select", ok |-> id \in DOMAIN towers, out |-> FALSE]
  /\ UNCHANGED <<towers, tower_tags, solution, lbl_valid, lbl_cost, btn_add,
                 button_1, added>>

\* Application.bind_add_tower: the Add button
BindAddTower ==
  /\ btn_add = NORMAL
  /\ btn_add' = DISABLED
  /\ button_1' = "add_tower"
  /\ last' = [ev |-> "bind", ok |-> TRUE, out |-> FALSE]
  /\ UNCHANGED <<towers, selected_tower_id, tower_tags, solution, lbl_valid,
                 lbl_cost, btn_delete, added>>

\* MainCanvas.add_tower: a left click at pixel (ex, ey) in adding mode
AddTower(ex, ey) ==
  LET x == Round(ex, Step(instance))
      y == Round(ey, Step(instance))
      id == NewId(towers)
      accepted == ~Occupied(towers, x, y) /\ InBounds(x, y, instance.grid_side_length)
  IN  /\ button_1 = "add_tower"
      /\ accepted => Cardinality(DOMAIN towers) < MaxTowers
      /\ IF accepted
           THEN /\ towers' = SetItem(towers, id, Point(x, y))
                /\ tower_tags' = tower_tags \cup DOMAIN towers'
                /\ UpdateSolution(towers')
                \* Application.unbind_add_tower
                /\ btn_add' = NORMAL
                /\ button_1' = "handle_btn_1"
                /\ added' = [id |-> id, pre |-> towers]
           ELSE UNCHANGED <<towers, tower_tags, solution, lbl_valid, lbl_cost,
                            btn_add, button_1, added>>
      /\ last' = [ev |-> "add", ok |-> accepted, out |-> OutsideGrid(x, y)]
      /\ UNCHANGED <<selected_tower_id, btn_delete>>

\* remove_tower without the call of update_solution
RemoveTowerNoUpdate ==
  /\ btn_delete = NORMAL
  /\ selected_tower_id # None
  /\ selected_tower_id \in DOMAIN towers
  /\ tower_tags' = tower_tags \ {selected_tower_id}
  /\ towers' = DelItem(towers, selected_tower_id)
  /\ selected_tower_id' = None
  /\ btn_delete' = DISABLED
  /\ last' = [ev |-> "remove", ok |-> TRUE, out |-> FALSE]
  /\ added' = NoAdd
  /\ UNCHANGED <<solution, lbl_valid, lbl_cost, btn_add, button_1>>

\* remove_tower without  self.selected_tower_id = None
RemoveTowerKeepsSelection ==
  /\ btn_delete = NORMAL
  /\ selected_tower_id # None
  /\ selected_tower_id \in DOMAIN towers
  /\ tower_tags' = tower_tags \ {selected_tower_id}
  /\ towers' = DelItem(towers, selected_tower_id)
  /\ UpdateSolution(towers')
  /\ btn_delete' = DISABLED
  /\ last' = [ev |-> "remove", ok |-> TRUE, out |-> FALSE]
  /\ added' = NoAdd
  /\ UNCHANGED <<selected_tower_id, btn_add, button_1>>

\* Application.remove_tower -> MainCanvas.remove_tower: the Delete button
RemoveTower ==
  /\ btn_delete = NORMAL
  /\ IF selected_tower_id # None
       THEN IF selected_tower_id \in DOMAIN towers
              THEN /\ tower_tags' = tower_tags \ {selected_tower_id}
                   /\ towers' = DelItem(towers, selected_tower_id)
                   /\ UpdateSolution(towers')
                   /\ selected_tower_id' = None
                   /\ btn_delete' = DISABLED
                   /\ last' = [ev |-> "remove", ok |-> TRUE, out |-> FALSE]
              \* KeyError in del, after the canvas items were deleted
              ELSE /\ tower_tags' = tower_tags \ {selected_tower_id}
                   /\ last' = [ev |-> "remove", ok |-> FALSE, out |-> FALSE]
                   /\ UNCHANGED <<towers, solution, lbl_valid, lbl_cost,
                                  selected_tower_id, btn_delete>>
       ELSE /\ last' = [ev |-> "remove", ok |-> FALSE, out |-> FALSE]
            /\ UNCHANGED <<towers, tower_tags, solution, lbl_valid, lbl_cost,
                           selected_tower_id, btn_delete>>
  /\ added' = IF towers' = towers THEN added ELSE NoAdd
  /\ UNCHANGED <<btn_add, button_1>>

\* move_tower without the test of the grid bounds
MoveTowerUnchecked(id, dx, dy) ==
  LET new_tower == Point(towers[id].x + dx, towers[id].y + dy)
  IN  /\ towers' = SetItem(towers, id, new_tower)
      /\ UpdateSolution(towers')
      /\ last' = [ev |-> "move", ok |-> TRUE, out |-> OutsideGrid(new_tower.x, new_tower.y)]
      /\ added' = NoAdd
      /\ UNCHANGED <<selected_tower_id, tower_tags, btn_delete, btn_add, button_1>>

\* MainCanvas.move_tower(id, dx, dy)
MoveTower(id, dx, dy) ==
  LET curr_tower == towers[id]
      new_tower == Point(curr_tower.x + dx, curr_tower.y + dy)
      accepted == InBounds(new_tower.x, new_tower.y, instance.grid_side_length)
  IN  /\ IF accepted
           THEN /\ towers' = SetItem(towers, id, new_tower)
                /\ UpdateSolution(towers')
           ELSE UNCHANGED <<towers, solution, lbl_valid, lbl_cost>>
      /\ last' = [ev |-> "move", ok |-> accepted,
                   out |-> OutsideGrid(new_tower.x, new_tower.y)]
      /\ added' = IF accepted THEN NoAdd ELSE added
      /\ UNCHANGED <<selected_tower_id, tower_tags, btn_delete, btn_add, button_1>>

\* the arrow keys; without a selection the handlers do nothing
move_selected_tower_up ==
  selected_tower_id # None /\ MoveTower(selected_tower_id, 0, -1)

move_selected_tower_down ==
  selected_tower_id # None /\ MoveTower(selected_tower_id, 0, 1)

move_selected_tower_left ==
  selected_tower_id # None /\ MoveTower(selected_tower_id, -1, 0)

move_selected_tower_right ==
  selected_tower_id # None /\ MoveTower(selected_tower_id, 1, 0)

Next ==
  \/ /\ button_1 = "handle_btn_1"
     /\ \E id \in tower_tags \cup {None} : HandleBtn1(id)
     /\ UNCHANGED <<instance, expansion>> /\ UNCHANGED minlpVars
  \/ BindAddTower /\ UNCHANGED <<instance, expansion>> /\ UNCHANGED minlpVars
  \/ /\ button_1 = "add_tower"
     /\ \E ex \in ClickCoords(instance), ey \in ClickCoords(instance) : AddTower(ex, ey)
     /\ UNCHANGED <<instance, expansion>> /\ UNCHANGED minlpVars
  \/ RemoveTower /\ UNCHANGED <<instance, expansion>> /\ UNCHANGED minlpVars
  \/ move_selected_tower_up /\ UNCHANGED <<instance, expansion>> /\ UNCHANGED minlpVars
  \/ move_selected_tower_down /\ UNCHANGED <<instance, expansion>> /\ UNCHANGED minlpVars
  \/ move_selected_tower_left /\ UNCHANGED <<instance, expansion>> /\ UNCHANGED minlpVars
  \/ move_selected_tower_right /\ UNCHANGED <<instance, expansion>> /\ UNCHANGED minlpVars

Spec == Init /\ [][Next]_vars

----------------------------------------------------------------------------
(* Properties of the editor, checked under Spec *)

\* C1: an accepted add_tower never assigns an identifier in use: the map
\* grows by exactly one tower and every id it had keeps its Point.
AddAssignsFreshId ==
  [][(last'.ev = "add" /\ last'.ok) =>
       /\ Cardinality(DOMAIN towers') = Cardinality(DOMAIN towers) + 1
       /\ \A i \in DOMAIN towers : i \in DOMAIN towers' /\ towers'[i] = towers[i]]_vars

\* C2: removing the tower whose id the preceding accepted add assigned
\* restores the tower map, and with it the validity and penalty shown.
AddThenRemoveRestores ==
  [][(added.id # None /\ selected_tower_id = added.id /\
      last'.ev = "remove" /\ last'.ok) =>
       /\ towers' = added.pre
       /\ lbl_valid' = Valid(instance, added.pre)
       /\ lbl_cost' = Penalty(instance, added.pre)]_vars

\* C3: an add_tower or move_tower onto a cell that holds a tower is refused,
\* so that (the loaded towers being at distinct cells) no two tower ids ever
\* map to the same cell.
NoTwoTowersShareCell ==
  \A i, j \in DOMAIN towers : i # j => towers[i] # towers[j]

\* C4: an add_tower or move_tower whose resulting point has x or y outside
\* 0..D-1 changes neither the tower map, nor the selection, nor the solution.
OutOfBoundsChangesNothing ==
  [][(last'.ev \in {"add", "move"} /\ last'.out)
     => /\ towers' = towers
        /\ selected_tower_id' = selected_tower_id
        /\ solution' = solution]_vars

\* a click on a point outside the grid was handled by add_tower and refused
OutOfBoundsAddSeen ==
  /\ last.ev = "add"
  /\ ~last.ok
  /\ last.out
  /\ button_1 = "add_tower"

\* C5: the loaded towers lying in the grid, every tower of the map lies in
\* [0, D-1] x [0, D-1] after any sequence of add, remove and arrow-key events.
TowersInGrid ==
  \A i \in DOMAIN towers :
    /\ 0 <= towers[i].x /\ towers[i].x <= instance.grid_side_length - 1
    /\ 0 <= towers[i].y /\ towers[i].y <= instance.grid_side_length - 1

\* an arrow key pushed the selected tower against the edge of the grid
MoveAtEdgeSeen ==
  /\ last.ev = "move"
  /\ ~last.ok
  /\ selected_tower_id \in DOMAIN towers
  /\ towers[selected_tower_id].x = 0
  /\ last.out

\* C6: whenever a handler has returned, and initially, Application.solution
\* holds exactly the Points of MainCanvas.towers, and the validity and cost
\* shown are those of that tower set.
SolutionMatchesTowers ==
  /\ solution = BagOfValues(towers)
  /\ lbl_valid = Valid(instance, towers)
  /\ lbl_cost = Penalty(instance, towers)

\* a tower was removed and others remain in the map and in the solution
RemoveSeen ==
  /\ last.ev = "remove"
  /\ last.ok
  /\ DOMAIN towers # {}
  /\ DOMAIN solution # {}

\* C13: selected_tower_id is None or a key of the tower map, and the Delete
\* button is enabled exactly when it is not None; no handler looks up an id
\* that the map does not hold (the tower items on the canvas are those of the
\* map's ids, and every remove finds its id).
SelectionIsKey ==
  /\ selected_tower_id = None \/ selected_tower_id \in DOMAIN towers
  /\ btn_delete = NORMAL <=> selected_tower_id # None
  /\ tower_tags \subseteq DOMAIN towers
  /\ last.ev = "remove" => last.ok

\* an add that follows a deletion has reassigned the id of the selected tower
AddReusedSelectedId ==
  /\ last.ev = "add"
  /\ last.ok
  /\ selected_tower_id # None
  /\ added.id = selected_tower_id
  /\ selected_tower_id \in DOMAIN added.pre

\* C14: bind_add_tower enters adding mode (Add disabled, left click bound to
\* add_tower); a click that add_tower refuses leaves the mode, the tower map
\* and the selection unchanged; adding mode is left only by an accepted add,
\* which re-enables Add, rebinds handle_btn_1 and adds exactly one tower.
AddingModeProtocol ==
  [][/\ last'.ev = "bind" => (btn_add' = DISABLED /\ button_1' = "add_tower")
     /\ (last'.ev = "add" /\ ~last'.ok) =>
          /\ btn_add' = DISABLED /\ button_1' = "add_tower"
          /\ towers' = towers
          /\ selected_tower_id' = selected_tower_id
     /\ (button_1 = "add_tower" /\ button_1' # "add_tower") =>
          /\ last'.ev = "add" /\ last'.ok
          /\ btn_add' = NORMAL /\ button_1' = "handle_btn_1"
          /\ Cardinality(DOMAIN towers') = Cardinality(DOMAIN towers) + 1]_vars

----------------------------------------------------------------------------
(* exp_expansion_1, exp_expansion_2 *)

\* w_0 = 6, the reference overlap count of both expansions
w_0 == 6

\* f0 = math.exp(0.17 * w_0). Every value of the expansions is a rational
\* multiple of f0; f0 is written as 20000 units, which makes f1, f2 and
\* 0.5 * f2 whole numbers of units, so that sums and comparisons are exact.
f0 == 20000

\* f1 = 0.17 * f0
f1 == (17 * f0) \div 100

\* f2 = 0.17 * f1
f2 == (17 * f1) \div 100

\* exp_expansion_1(w), in units
exp_expansion_1(wv) == f0 + f1 * (wv - w_0)

\* exp_expansion_2 with the square of (w - w_0) left out
exp_expansion_2_linear(wv) ==
  f0 + f1 * (wv - w_0) + (f2 * (wv - w_0)) \div 2

\* exp_expansion_2(w), in units
exp_expansion_2(wv) ==
  f0 + f1 * (wv - w_0) + (f2 * (wv - w_0) * (wv - w_0)) \div 2

\* a call of the two expansions on some w in 0..MaxW
InitExpansion ==
  /\ expansion \in {[w |-> n, order_1 |-> <<>>, order_2 |-> <<>>] : n \in 0..MaxW}
  /\ instance = [grid_side_length |-> 1, cities |-> <<>>,
                 coverage_radius |-> 0, penalty_radius |-> 0]
  /\ EditorIdle
  /\ MinlpIdle

\* exp_expansion_1(w) returns
Expansion1 ==
  /\ expansion.order_1 = <<>>
  /\ expansion' = [expansion EXCEPT !.order_1 = <<exp_expansion_1(expansion.w)>>]

\* exp_expansion_2(w) returns
Expansion2 ==
  /\ expansion.order_2 = <<>>
  /\ expansion' = [expansion EXCEPT !.order_2 = <<exp_expansion_2(expansion.w)>>]

NextExpansion ==
  \/ Expansion1 /\ UNCHANGED <<instance>> /\ UNCHANGED editorVars /\ UNCHANGED minlpVars
  \/ Expansion2 /\ UNCHANGED <<instance>> /\ UNCHANGED editorVars /\ UNCHANGED minlpVars

SpecExpansion == InitExpansion /\ [][NextExpansion]_vars

\* C12: exp_expansion_2(w) equals exp_expansion_1(w) at w = w_0 = 6 and is
\* strictly greater at every other w >= 0.
Order2AboveOrder1 ==
  (expansion.order_1 # <<>> /\ expansion.order_2 # <<>>) =>
    /\ expansion.w = 6 => expansion.order_2[1] = expansion.order_1[1]
    /\ expansion.w # 6 => expansion.order_2[1] > expansion.order_1[1]

\* both expansions have returned for w = 0, where the tangent is negative
BothExpandedAtZero ==
  /\ expansion.w = 0
  /\ expansion.order_1 # <<>>
  /\ expansion.order_2 # <<>>
  /\ expansion.order_1[1] < 0

----------------------------------------------------------------------------
(* solve_minlp *)

\* the 0/1 assignments of the cell variables model.t
Assignments(dim) == [Cells(dim) -> {0, 1}]

RECURSIVE SumOver(_, _)
\* sum of f[c] over the cells c of S
SumOver(S, f) ==
  IF S = {} THEN 0
  ELSE LET c == CHOOSE e \in S : TRUE
       IN  f[c] + SumOver(S \ {c}, f)

\* value of a linear expression (cell -> coefficient) under an assignment
Eval(expr, a) == SumOver(DOMAIN expr, [c \in DOMAIN expr |-> expr[c] * a[c]])

\* whether an assignment satisfies a constraint  body sense rhs
Satisfied(con, a) ==
  IF con.sense = ">=" THEN Eval(con.body, a) >= con.rhs
  ELSE IF con.sense = ">" THEN Eval(con.body, a) > con.rhs
  ELSE Eval(con.body, a) = con.rhs

\* sum(model.t[point.x, point.y] for point in points_within_radius(...))
SumWithinRadius(center, radius, dim) ==
  [c \in Cells(dim) |-> IF c \in PointsWithinRadius(center, radius, dim) THEN 1 ELSE 0]

\* the left-hand side of a city's constraint: the sum over the disk
\* + model.t[city.x, city.y]
CoverBody(inst, city) ==
  LET disk == SumWithinRadius(city, inst.coverage_radius, inst.grid_side_length)
  IN  [c \in Cells(inst.grid_side_length) |-> disk[c] + (IF c = city THEN 1 ELSE 0)]

\* the coverage constraint written with > for >=
CoverConstraintStrict(inst, city) ==
  [body |-> CoverBody(inst, city), sense |-> ">", rhs |-> 1]

\* the coverage constraint written with == for >=
CoverConstraintExact(inst, city) ==
  [body |-> CoverBody(inst, city), sense |-> "==", rhs |-> 1]

\* the constraint added to model.cover_cities for a city
CoverConstraint(inst, city) ==
  [body |-> CoverBody(inst, city), sense |-> ">=", rhs |-> 1]

\* w[x][y] summed over the disk without the cell (x, y) itself
OverlapExprExcludingCell(inst, cell) ==
  [c \in Cells(inst.grid_side_length) |->
     IF c = cell THEN 0
     ELSE SumWithinRadius(cell, inst.penalty_radius, inst.grid_side_length)[c]]

\* objective_rule's w[x][y], for the cell (x, y)
OverlapExpr(inst, cell) ==
  SumWithinRadius(cell, inst.penalty_radius, inst.grid_side_length)

\* the term  170.0 * model.t[x, y] * exp_expansion_1(w[x][y])  of cost under
\* an assignment, for the cell (x, y) whose overlap expression is wxy
ObjectiveTerm(wxy, cell, a) == 170 * a[cell] * exp_expansion_1(Eval(wxy, a))

\* pyo.Constraint(expr=pyo.summation(model.t) >= 0)
DummyConstraint(inst) ==
  [body |-> [c \in Cells(inst.grid_side_length) |-> 1], sense |-> ">=", rhs |-> 0]

\* position of a cell in the order of  for x: for y
Index(p, dim) == p.x * dim + p.y

\* the instances handed to solve_minlp: distinct cities on the grid, listed
\* in the order of their cells
MinlpInstances ==
  {[grid_side_length |-> MinlpDim, cities |-> cs,
    coverage_radius |-> rs, penalty_radius |-> rp] :
      cs \in {s \in UNION {[1..n -> Cells(MinlpDim)] : n \in 0..MaxCities} :
                \A i, j \in DOMAIN s :
                  i < j => Index(s[i], MinlpDim) < Index(s[j], MinlpDim)},
      rs \in 0..MaxRadius, rp \in 0..MaxRadius}

\* solve_minlp(instance), up to model.cover_cities = pyo.ConstraintList()
InitMinlp ==
  /\ instance \in MinlpInstances
  /\ pc = "cover"
  /\ cover_cities = <<>>
  /\ w = <<>>
  /\ dummy_constraint = <<>>
  /\ results = None
  /\ t = <<>>
  /\ ret = None
  /\ EditorIdle
  /\ ExpansionIdle

\* one turn of  for city in model.CitiesSet: model.cover_cities.add(...)
CoverCity ==
  /\ pc = "cover"
  /\ Len(cover_cities) < Len(instance.cities)
  /\ cover_cities' =
       Append(cover_cities, CoverConstraint(instance, instance.cities[Len(cover_cities) + 1]))
  /\ UNCHANGED <<pc, w, dummy_constraint, results, t, ret>>

\* model.objective = pyo.Objective(rule=objective_rule, ...)
ObjectiveRule ==
  /\ pc = "cover"
  /\ Len(cover_cities) = Len(instance.cities)
  /\ w' = [cell \in Cells(instance.grid_side_length) |-> OverlapExpr(instance, cell)]
  /\ dummy_constraint' = <<DummyConstraint(instance)>>
  /\ pc' = "solve"
  /\ UNCHANGED <<cover_cities, results, t, ret>>

\* whether a satisfies every constraint of the model
Feasible(a) ==
  /\ \A k \in DOMAIN cover_cities : Satisfied(cover_cities[k], a)
  /\ \A k \in DOMAIN dummy_constraint : Satisfied(dummy_constraint[k], a)

\* number of cells an assignment selects
Selected(a) == Cardinality({c \in DOMAIN a : a[c] = 1})

\* results = solver.solve(model): bonmin either converges to a feasible 0/1
\* assignment, or stops at its iteration limit and leaves the variables
\* unset or at whatever 0/1 values it had, or reports the model infeasible
\* and sets no variable
Solve(termination, values) ==
  /\ pc = "solve"
  /\ Selected(values) <= MaxSelected
  /\ termination = "infeasible" => \A c \in DOMAIN values : values[c] = None
  /\ termination = "optimal" =>
       values \in Assignments(instance.grid_side_length) /\ Feasible(values)
  /\ results' = termination
  /\ t' = values
  /\ pc' = "decode"
  /\ UNCHANGED <<cover_cities, w, dummy_constraint, ret>>

RECURSIVE CollectOffByOne(_, _, _)
\* the loops stopping one cell short of the grid
CollectOffByOne(values, dim, k) ==
  IF k >= dim * dim - 1 THEN <<>>
  ELSE LET p == Point(k \div dim, k % dim)
       IN  (IF values[p] = 1 THEN <<p>> ELSE <<>>) \o CollectOffByOne(values, dim, k + 1)

RECURSIVE Collect(_, _, _)
\* the loops  for x in range(dim): for y in range(dim): if value == 1: append
\* from the k-th cell on, in the order of the loops
Collect(values, dim, k) ==
  IF k >= dim * dim THEN <<>>
  ELSE LET p == Point(k \div dim, k % dim)
       IN  (IF values[p] = 1 THEN <<p>> ELSE <<>>) \o Collect(values, dim, k + 1)

\* the rest of solve_minlp: towers collected, Solution built and returned
Decode ==
  /\ pc = "decode"
  /\ ret' = [kind |-> "Solution",
             towers |-> Collect(t, instance.grid_side_length, 0)]
  /\ pc' = "done"
  /\ UNCHANGED <<cover_cities, w, dummy_constraint, results, t>>

\* what the solver may leave in model.t when it has not converged
Unconverged(dim) == Assignments(dim) \cup {[c \in Cells(dim) |-> None]}

NextMinlp ==
  \/ CoverCity /\ UNCHANGED <<instance, expansion>> /\ UNCHANGED editorVars
  \/ ObjectiveRule /\ UNCHANGED <<instance, expansion>> /\ UNCHANGED editorVars
  \/ /\ pc = "solve"
     /\ \E termination \in {"optimal", "maxIterations", "infeasible"},
           values \in Unconverged(instance.grid_side_length) : Solve(termination, values)
     /\ UNCHANGED <<instance, expansion>> /\ UNCHANGED editorVars
  \/ Decode /\ UNCHANGED <<instance, expansion>> /\ UNCHANGED editorVars

SpecMinlp == InitMinlp /\ [][NextMinlp]_vars

----------------------------------------------------------------------------
(* Properties of solve_minlp, checked under SpecMinlp *)

\* C7: when the solver stops at its iteration limit or reports infeasibility,
\* solve_minlp returns a distinct "did not converge" outcome, not a Solution
\* decoded from the values left in the variables.
NonConvergenceSurfaced ==
  (pc = "done" /\ results # "optimal") => ret.kind # "Solution"

\* the objective has been built
ObjectiveBuilt == pc \in {"solve", "decode", "done"}

\* the model is complete and about to be handed to the solver
ModelBuilt == pc = "solve"

\* C8: for every 0/1 assignment, w[x][y] is the number of selected cells other
\* than (x, y) within penalty_radius of (x, y).
OverlapExcludesCell ==
  ObjectiveBuilt =>
    \A a \in Assignments(instance.grid_side_length) :
      \A cell \in Cells(instance.grid_side_length) :
        Eval(w[cell], a) =
          Cardinality({c \in Cells(instance.grid_side_length) :
              /\ c # cell
              /\ a[c] = 1
              /\ DistanceSq(c, cell) <= instance.penalty_radius * instance.penalty_radius})

\* C9: one coverage constraint per city, satisfied by a 0/1 assignment exactly
\* when a selected cell lies within coverage_radius of the city.
OneCoverConstraintPerCity ==
  ModelBuilt =>
    /\ Len(cover_cities) = Len(instance.cities)
    /\ \A k \in DOMAIN cover_cities :
         \A a \in Assignments(instance.grid_side_length) :
           Satisfied(cover_cities[k], a) <=>
             \E c \in Cells(instance.grid_side_length) :
               /\ a[c] = 1
               /\ DistanceSq(c, instance.cities[k]) <=
                    instance.coverage_radius * instance.coverage_radius

\* the model of an instance with two cities and a positive radius is built
TwoCitiesCovered ==
  /\ ModelBuilt
  /\ Len(cover_cities) = 2
  /\ instance.coverage_radius >= 1

\* C10: the assignment selecting exactly the cities' own cells satisfies every
\* constraint of the model, whatever the coverage radius.
CitiesAssignmentFeasible ==
  ModelBuilt =>
    LET a == [c \in Cells(instance.grid_side_length) |->
                IF \E k \in DOMAIN instance.cities : instance.cities[k] = c THEN 1 ELSE 0]
    IN  /\ \A k \in DOMAIN cover_cities : Satisfied(cover_cities[k], a)
        /\ \A k \in DOMAIN dummy_constraint : Satisfied(dummy_constraint[k], a)
        /\ Len(dummy_constraint) = 1
        /\ Len(cover_cities) = Len(instance.cities)

\* the model of an instance with two cities and coverage radius 0 is built
ZeroRadiusBuilt ==
  /\ ModelBuilt
  /\ Len(instance.cities) = 2
  /\ Len(cover_cities) = 2
  /\ instance.coverage_radius = 0

\* C11: when the solver has left a 0/1 value in every cell, the Solution
\* returned holds every cell at 1 exactly once and no cell at 0.
DecodedTowersExact ==
  (pc = "done" /\ t \in Assignments(instance.grid_side_length)) =>
    /\ ret.kind = "Solution"
    /\ \A c \in Cells(instance.grid_side_length) :
         Cardinality({k \in DOMAIN ret.towers : ret.towers[k] = c}) = t[c]

\* a converged answer selecting the last cell and another one was decoded
TwoTowersDecoded ==
  /\ pc = "done"
  /\ results = "optimal"
  /\ t \in Assignments(instance.grid_side_length)
  /\ t[Point(instance.grid_side_length - 1, instance.grid_side_length - 1)] = 1
  /\ Len(ret.towers) = 2

\* C15: for every 0/1 assignment each term t[x,y] * exp_expansion_1(w[x][y])
\* of the objective is non-negative, and positive for a selected cell.
ObjectiveTermsNonNegative ==
  ModelBuilt =>
    \A a \in Assignments(instance.grid_side_length) :
      \A cell \in Cells(instance.grid_side_length) :
        /\ ObjectiveTerm(w[cell], cell, a) >= 0
        /\ a[cell] = 1 => ObjectiveTerm(w[cell], cell, a) > 0

\* an objective is built in which a selected cell can have no selected
\* neighbour within penalty_radius: w[x][y] then counts the cell alone
LoneCellObjectiveBuilt ==
  /\ ModelBuilt
  /\ instance.penalty_radius = 0
  /\ \A cell \in DOMAIN w : w[cell][cell] = 1

====
